---- MODULE Spec2Model ----
(***************************************************************************)
(* Model of joyodb/model.py: the Kanji / Reading / Example entities, the   *)
(* okurigana delimiter, the example/gloss processor and the note grammar.  *)
(*                                                                         *)
(* Strings are sequences of characters.  A character is written as an      *)
(* ASCII token: hiragana in lower-case romaji ("ru" is る, "xtsu" is っ),  *)
(* katakana with a leading K ("Ksa" is サ), kanji in upper case            *)
(* ("OSORE" is 恐) and punctuation by name ("fcomma" is ，, "maru" is 。). *)
(***************************************************************************)
EXTENDS Naturals, Sequences, FiniteSets, TLC

VARIABLES
    kanji,      \* the Kanji object: its fields (readings is a list of Reading ids)
    heap,       \* the Reading objects, by identity
    call,       \* the last call made on the objects, and how it ended
    before,     \* the Kanji object and the heap as they were when that call began
    ncalls,     \* number of calls made so far
    fn          \* inputs and result of the pure functions (okurigana specification)

vars == <<kanji, heap, call, before, ncalls, fn>>

----------------------------------------------------------------------------
(* Bounds *)

MaxReadingLen == 2
MaxCalls == 3

----------------------------------------------------------------------------
(* Characters *)

Hiragana ==
    {"wa", "e", "i", "o", "u", "ka", "ke", "ki", "ko", "ku",
     "ga", "ge", "gi", "go", "gu", "sa", "se", "shi", "so", "su",
     "za", "ze", "ji", "zo", "zu", "ta", "te", "chi", "to", "tsu",
     "da", "de", "di", "do", "du", "na", "ne", "ni", "no", "nu",
     "ha", "he", "hi", "ho", "fu", "ba", "be", "bi", "bo", "bu",
     "pa", "pe", "pi", "po", "pu", "ma", "me", "mi", "mo", "mu",
     "ra", "re", "ri", "ro", "ru", "yo", "ya", "xtsu", "n"}

\* サ ン ミ イ ッ タ ジ ュ
Katakana == {"Ksa", "Kn", "Kmi", "Ki", "Kxtsu", "Kta", "Kji", "Kxyu"}

\* 恐 恥 頼 初 静 干 昼 汁 出 式 物 三 日 亡 茨 城 宮 県 府 都 道 付 参 照 許 容 字 体 使
\* 転 用 意 食 飲 副 接 多 文 語 位 一 従 春 雨 小 霧 憂 連 形 書 入 叱 𠮟
Han ==
    {"OSORE", "HAJI", "TANOMU", "HATSU", "SHIZU", "HOSU", "HIRU", "SHIRU",
     "DERU", "SHIKI", "MONO", "MITSU", "NICHI", "NAKI", "IBARA", "SHIRO",
     "MIYA", "KEN", "FU", "TO", "DOU", "TSUKU", "SAN", "SHOU", "KYO", "YOU",
     "JI", "TAI", "TSUKAU", "TEN", "MOCHI", "IMI", "TABE", "NOMU",
     "FUKU", "SETSU", "OOI", "BUN", "GO", "KURAI", "ICHI", "JUU", "HARU", "AME",
     "KO", "KIRI", "UKI", "REN", "KEI", "KAKU", "IRU", "SHIKARU", "SHIKARU_STD"}

\* ，  ,  。  「  」  （  ）  ・  ［  ］  ＝  ＊  ⇔  ' '  〔  〕  …  .  U+3000  U+20B9F
Punct ==
    {"fcomma", "comma", "maru", "lq", "rq", "lp", "rp", "nakaguro", "lb", "rb",
     "eq", "star", "arrow", "sp", "lt", "rt", "dots", ".", "wsp"}

AnyChar == Hiragana \cup Katakana \cup Han \cup Punct

----------------------------------------------------------------------------
(* String helpers *)

\* str.replace(c, '') for a one-character c
RECURSIVE Remove(_, _)
Remove(s, c) ==
    IF s = <<>> THEN <<>>
    ELSE IF Head(s) = c THEN Remove(Tail(s), c)
    ELSE <<Head(s)>> \o Remove(Tail(s), c)

Range(s) == {s[i] : i \in DOMAIN s}

StartsWith(s, p) == Len(p) <= Len(s) /\ SubSeq(s, 1, Len(p)) = p

EndsWith(s, p) == Len(p) <= Len(s) /\ SubSeq(s, Len(s) - Len(p) + 1, Len(s)) = p

\* s occurs in t as a substring: 's in t'
occurs_in(s, t) ==
    \E i \in 0..Len(t) : i + Len(s) <= Len(t) /\ SubSeq(t, i + 1, i + Len(s)) = s

\* str.replace(sub, '') and re.sub(sub, '', s) for a plain non-empty sub
RECURSIVE RemoveSub(_, _)
RemoveSub(s, sub) ==
    IF s = <<>> THEN <<>>
    ELSE IF StartsWith(s, sub) THEN RemoveSub(SubSeq(s, Len(sub) + 1, Len(s)), sub)
    ELSE <<Head(s)>> \o RemoveSub(Tail(s), sub)

\* str.split(sep) for a one-character sep
RECURSIVE split(_, _)
split(s, sep) ==
    IF \A i \in DOMAIN s : s[i] # sep THEN <<s>>
    ELSE LET i == CHOOSE i \in DOMAIN s : s[i] = sep /\ \A j \in 1..(i - 1) : s[j] # sep
         IN  <<SubSeq(s, 1, i - 1)>> \o split(SubSeq(s, i + 1, Len(s)), sep)

\* a regular expression without repetition: one set of characters per position;
\* a plain character stands for itself and '.' for any character
Pat(s) == [i \in DOMAIN s |-> IF s[i] = "." THEN AnyChar ELSE {s[i]}]

\* re.search(p, s) for such an expression
search(p, s) ==
    \E i \in 0..Len(s) :
        /\ i + Len(p) <= Len(s)
        /\ \A j \in 1..Len(p) : s[i + j] \in p[j]

----------------------------------------------------------------------------
(* Inflection classifier and okurigana delimiter *)

all_suffixes_increasing(string) ==
    [i \in 1..Len(string) |-> SubSeq(string, Len(string) - i + 1, Len(string))]

all_suffixes(string) ==
    [i \in 1..Len(string) |-> SubSeq(string, i, Len(string))]

GODAN_INFLECTION ==
    [c \in {"u", "ku", "gu", "su", "zu", "tsu", "du", "nu", "fu", "bu", "pu", "mu", "ru"} |->
        CASE c = "u"   -> {"wa", "e", "i", "o", "u"}
          [] c = "ku"  -> {"ka", "ke", "ki", "ko", "ku"}
          [] c = "gu"  -> {"ga", "ge", "gi", "go", "gu"}
          [] c = "su"  -> {"sa", "se", "shi", "so", "su"}
          [] c = "zu"  -> {"za", "ze", "ji", "zo", "zu"}
          [] c = "tsu" -> {"ta", "te", "chi", "to", "tsu"}
          [] c = "du"  -> {"da", "de", "di", "do", "du"}
          [] c = "nu"  -> {"na", "ne", "ni", "no", "nu"}
          [] c = "fu"  -> {"ha", "he", "hi", "ho", "fu"}
          [] c = "bu"  -> {"ba", "be", "bi", "bo", "bu"}
          [] c = "pu"  -> {"pa", "pe", "pi", "po", "pu"}
          [] c = "mu"  -> {"ma", "me", "mi", "mo", "mu"}
          [] c = "ru"  -> {"ra", "re", "ri", "ro", "ru"}]

ICHIDAN_BASE_ENDING ==
    {"e", "ke", "ge", "se", "ze", "te", "de", "ne", "he", "be", "pe", "me", "re",
     "i", "ki", "gi", "shi", "ji", "chi", "di", "ni", "hi", "bi", "pi", "mi", "ri"}

\* 昼 汁
ICHIDAN_EXCEPTIONS == {<<"HIRU">>, <<"SHIRU">>}

is_ichidan_verb_no_exceptions(k, canonical_reading) ==
    /\ Len(canonical_reading) >= 2
    /\ canonical_reading[Len(canonical_reading)] = "ru"
    /\ canonical_reading[Len(canonical_reading) - 1] \in ICHIDAN_BASE_ENDING

is_ichidan_verb(k, canonical_reading) ==
    IF k \in ICHIDAN_EXCEPTIONS THEN FALSE
    ELSE IF /\ Len(canonical_reading) >= 2
            /\ canonical_reading[Len(canonical_reading)] = "ru"
            /\ canonical_reading[Len(canonical_reading) - 1] \in ICHIDAN_BASE_ENDING
         THEN TRUE
         ELSE FALSE

\* the body of one round of the loop of delimit_okurigana: does one of the
\* three searches for this suffix succeed?
ok_regex(k, canonical_reading, example, suffix) ==
    LET plain   == k \o suffix
        ichidan == is_ichidan_verb(k, canonical_reading)
        \* lose the る
        stem    == IF ichidan THEN SubSeq(plain, 1, Len(plain) - 1) ELSE plain
        last    == stem[Len(stem)]
    IN  \/ search(Pat(plain), example)
        \/ ichidan /\ search(Pat(stem), example)
        \/ /\ stem # <<>>
           /\ last \in DOMAIN GODAN_INFLECTION
           /\ search(Pat(SubSeq(stem, 1, Len(stem) - 1)) \o <<GODAN_INFLECTION[last]>>,
                     example)

\* the loop over all_suffixes, from the i-th suffix on
RECURSIVE delimit_from(_, _, _, _)
delimit_from(k, canonical_reading, example, i) ==
    IF i > Len(canonical_reading) THEN canonical_reading
    ELSE LET suffix == all_suffixes(canonical_reading)[i]
             prefix == SubSeq(canonical_reading, 1, Len(canonical_reading) - Len(suffix))
         IN  IF ok_regex(k, canonical_reading, example, suffix)
             THEN prefix \o <<".">> \o suffix
             ELSE delimit_from(k, canonical_reading, example, i + 1)

delimit_okurigana_no_shortcut(k, canonical_reading, example) ==
    delimit_from(k, canonical_reading, example, 1)

delimit_okurigana(k, canonical_reading, example) ==
    IF example = k THEN canonical_reading
    ELSE delimit_from(k, canonical_reading, example, 1)

----------------------------------------------------------------------------
(* Entities.  The state of a run of the program is a record                *)
(*   [kanji: the Kanji object, heap: the Reading objects, exc: the         *)
(*    exception that is propagating, or "none"]                            *)
(* and every method is an operator from such a record to the next one.     *)

None == <<"None">>

EmptyDict == [x \in {} |-> <<>>]

Put(d, key, value) == [x \in DOMAIN d \cup {key} |-> IF x = key THEN value ELSE d[x]]

Raise(S, e) == [S EXCEPT !.exc = e]

RaiseWith(S, e, message) == [S EXCEPT !.exc = e, !.msg = message]

\* Kanji.__init__ (the fields the parsing engine uses)
Kanji(k) ==
    [kanji |-> k, readings |-> <<>>, placename_readings |-> EmptyDict,
     compound_readings |-> EmptyDict, notes |-> <<>>, joyo_documentation |-> None,
     pending_note |-> FALSE]

\* Example.__init__: part-of-speech markers 〔副〕 〔接〕 and a leading …… are
\* taken out of the text
Example(example) ==
    IF occurs_in(<<"lt", "FUKU", "rt">>, example)
    THEN [example |-> RemoveSub(example, <<"lt", "FUKU", "rt">>), pos |-> <<"Adverb">>,
          literary |-> FALSE]
    ELSE IF occurs_in(<<"lt", "SETSU", "rt">>, example)
    THEN [example |-> RemoveSub(example, <<"lt", "SETSU", "rt">>), pos |-> <<"Conjunction">>,
          literary |-> FALSE]
    ELSE IF StartsWith(example, <<"dots", "dots">>)
    THEN [example |-> RemoveSub(example, <<"dots", "dots">>), pos |-> <<"Suffix">>,
          literary |-> FALSE]
    ELSE [example |-> example, pos |-> None, literary |-> FALSE]

\* Reading.__init__ for a non-empty reading
Reading(reading, variation_of, kind) ==
    LET indented == reading[1] = "wsp"
        text     == IF indented THEN Tail(reading) ELSE reading
    IN  [reading |-> text,
         uncommon |-> indented,
         examples |-> <<>>,
         kind |-> IF kind # None THEN kind
                  ELSE IF text # <<>> /\ text[1] \in Katakana THEN <<"On">> ELSE <<"Kun">>,
         variation_of |-> variation_of,
         notes |-> <<>>,
         alternate_orthographies |-> <<>>]

\* Kanji.add_reading; Reading.__init__ reads reading[0] and fails on ''
add_reading(S, reading, kind, variation_of) ==
    IF S.exc # "none" THEN S
    ELSE IF reading = <<>> THEN Raise(S, "IndexError")
    ELSE [S EXCEPT !.heap = Append(@, Reading(reading, variation_of, kind)),
                   !.kanji.readings = Append(@, Len(S.heap) + 1)]

\* self.kanji.readings[-1], self.kanji.readings[-2] = (the two, exchanged)
swap_last_two(S) ==
    LET n == Len(S.kanji.readings)
    IN  IF S.exc # "none" THEN S
        ELSE IF n < 2 THEN Raise(S, "IndexError")
        ELSE [S EXCEPT !.kanji.readings[n] = S.kanji.readings[n - 1],
                       !.kanji.readings[n - 1] = S.kanji.readings[n]]

\* the character-normalization table (popular-use forms): 𠮟 becomes 叱
popularize(s) == [i \in DOMAIN s |-> IF s[i] = "SHIKARU_STD" THEN "SHIKARU" ELSE s[i]]

\* re.sub('「|」|などと使う。', '', s)
PHRASE_TSUKAU == <<"na", "do", "to", "TSUKAU", "u", "maru">>
RECURSIVE strip_quotes(_)
strip_quotes(s) ==
    IF s = <<>> THEN <<>>
    ELSE IF Head(s) \in {"lq", "rq"} THEN strip_quotes(Tail(s))
    ELSE IF StartsWith(s, PHRASE_TSUKAU)
    THEN strip_quotes(SubSeq(s, Len(PHRASE_TSUKAU) + 1, Len(s)))
    ELSE <<Head(s)>> \o strip_quotes(Tail(s))

\* re.match('(.*)（(.*)）$', example): the positions of the last （ before a final ）
GlossOpenings(example) ==
    {i \in DOMAIN example : example[i] = "lp" /\ i < Len(example)}
gloss_match(example) ==
    /\ example # <<>>
    /\ example[Len(example)] = "rp"
    /\ GlossOpenings(example) # {}
LastOpening(example) ==
    CHOOSE i \in GlossOpenings(example) : \A j \in GlossOpenings(example) : j <= i
gloss_match_1(example) == SubSeq(example, 1, LastOpening(example) - 1)
gloss_match_2(example) == SubSeq(example, LastOpening(example) + 1, Len(example) - 1)

\* re.sub('っ.*', 'っ', gloss)
cut_after_small_tsu(gloss) ==
    LET i == CHOOSE i \in DOMAIN gloss :
                 gloss[i] = "xtsu" /\ \A j \in 1..(i - 1) : gloss[j] # "xtsu"
    IN  SubSeq(gloss, 1, i)

NonEmpty(s) == s # <<>>

RemoveAt(s, i) == SubSeq(s, 1, i - 1) \o SubSeq(s, i + 1, Len(s))

\* 恐らく, おそらく, おそ.れる
OSORAKU == <<"OSORE", "ra", "ku">>
OSORAKU_READING == <<"o", "so", "ra", "ku">>
OSORERU_DOTTED == <<"o", "so", ".", "re", "ru">>

RECURSIVE add_examples(_, _, _)
RECURSIVE examples_loop(_, _, _, _)
RECURSIVE okurigana_loop(_, _, _, _)

\* Kanji.add_examples: the call goes to the last reading
Kanji_add_examples(S, examples) ==
    IF S.exc # "none" THEN S
    ELSE IF S.kanji.readings = <<>> THEN Raise(S, "IndexError")
    ELSE add_examples(S, S.kanji.readings[Len(S.kanji.readings)], examples)

\* Reading.add_examples, first loop: 'for example in examples', from the i-th on
examples_loop(S, self, examples, i) ==
    IF S.exc # "none" \/ i > Len(examples) THEN S
    ELSE LET example == examples[i]
         IN  IF gloss_match(example)
             THEN LET g     == gloss_match_2(example)
                      gloss == IF "xtsu" \in Range(g) THEN cut_after_small_tsu(g) ELSE g
                      S1    == add_reading(S, gloss, None, S.heap[self].reading)
                      S2    == Kanji_add_examples(S1, gloss_match_1(example))
                      S3    == swap_last_two(S2)
                  IN  examples_loop(S3, self, examples, i + 1)
             ELSE examples_loop([S EXCEPT !.heap[self].examples = Append(@, Example(example))],
                                self, examples, i + 1)

\* the second loop, were every computed split adopted
okurigana_loop_overwriting(S, self, clean_reading, i) ==
    IF S.exc # "none" \/ i > Len(S.heap[self].examples) THEN S
    ELSE LET example     == S.heap[self].examples[i].example
             new_reading == delimit_okurigana(S.kanji.kanji, clean_reading, example)
         IN  IF "." \notin Range(new_reading)
             THEN okurigana_loop(S, self, clean_reading, i + 1)
             ELSE okurigana_loop([S EXCEPT !.heap[self].reading = new_reading],
                                 self, clean_reading, i + 1)

\* Reading.add_examples, second loop: 'for example_obj in self.examples' walks
\* the list by position while the body removes from it; i is the position
okurigana_loop(S, self, clean_reading, i) ==
    IF S.exc # "none" \/ i > Len(S.heap[self].examples) THEN S
    ELSE LET example     == S.heap[self].examples[i].example
             new_reading == delimit_okurigana(S.kanji.kanji, clean_reading, example)
         IN  IF "." \notin Range(new_reading)
             THEN okurigana_loop(S, self, clean_reading, i + 1)
             ELSE IF clean_reading = S.heap[self].reading
             THEN okurigana_loop([S EXCEPT !.heap[self].reading = new_reading],
                                 self, clean_reading, i + 1)
             ELSE IF S.heap[self].reading = new_reading
             THEN okurigana_loop(S, self, clean_reading, i + 1)
             ELSE LET S1    == [S EXCEPT !.heap[self].examples = RemoveAt(@, i)]
                      clean == IF example = OSORAKU THEN OSORAKU_READING ELSE clean_reading
                      var   == IF example = OSORAKU THEN OSORERU_DOTTED ELSE None
                      S2    == add_reading(S1, clean, None, var)
                      S3    == Kanji_add_examples(S2, example)
                      S4    == swap_last_two(S3)
                  IN  okurigana_loop(S4, self, clean, i + 1)

\* Reading.add_examples
add_examples(S, self, examples_str) ==
    IF S.exc # "none" THEN S
    ELSE LET quoted   == IF "lq" \in Range(examples_str)
                         THEN strip_quotes(examples_str) ELSE examples_str
             examples == SelectSeq(split(popularize(quoted), "fcomma"), NonEmpty)
             S1       == examples_loop(S, self, examples, 1)
         IN  IF S1.exc = "none" /\ S1.heap[self].kind = <<"Kun">>
             THEN okurigana_loop(S1, self, Remove(S1.heap[self].reading, "."), 1)
             ELSE S1

----------------------------------------------------------------------------
(* Note grammar *)

Whitespace == {"sp", "wsp"}

\* str.strip()
RECURSIVE strip(_)
strip(s) ==
    IF s = <<>> THEN s
    ELSE IF Head(s) \in Whitespace THEN strip(Tail(s))
    ELSE IF s[Len(s)] \in Whitespace THEN strip(SubSeq(s, 1, Len(s) - 1))
    ELSE s

\* the length of the longest run of characters of a class at the start of s
RECURSIVE RunLength(_, _)
RunLength(s, class) ==
    IF s = <<>> \/ Head(s) \notin class THEN 0 ELSE 1 + RunLength(Tail(s), class)

\* re.match('［\p{Han}］＝許容字体，', string)
ACCEPTED_VARIANT_TAIL == <<"rb", "eq", "KYO", "YOU", "JI", "TAI", "fcomma">>
accepted_variant_match(string) ==
    /\ Len(string) >= 9
    /\ string[1] = "lb"
    /\ string[2] \in Han
    /\ SubSeq(string, 3, 9) = ACCEPTED_VARIANT_TAIL

\* re.match('＊［(（付）.*)参照］$', string), and its group 1
APPENDIX_HEAD == <<"star", "lb", "lp", "TSUKU", "rp">>
APPENDIX_TAIL == <<"SAN", "SHOU", "rb">>
appendix_match(string) ==
    /\ Len(string) >= Len(APPENDIX_HEAD) + Len(APPENDIX_TAIL)
    /\ StartsWith(string, APPENDIX_HEAD)
    /\ EndsWith(string, APPENDIX_TAIL)
appendix_match_1(string) == SubSeq(string, 3, Len(string) - Len(APPENDIX_TAIL))

\* re.match('(お?)([\p{Han}・\p{Hiragana}]+)（(\p{Hiragana}+)）(.*)', string), with or
\* without the final $: neither （ nor ） is in a class, so each class run is the
\* longest one, and お? gives its お back when nothing else is left for group 2
compound_match(string) ==
    LET run   == RunLength(string, Han \cup Hiragana \cup {"nakaguro"})
        rest  == SubSeq(string, run + 2, Len(string))
        gloss == RunLength(rest, Hiragana)
        pre   == IF string[1] = "o" /\ run >= 2 THEN 1 ELSE 0
    IN  IF /\ run >= 1
           /\ Len(string) > run
           /\ string[run + 1] = "lp"
           /\ gloss >= 1
           /\ Len(rest) > gloss
           /\ rest[gloss + 1] = "rp"
        THEN [matched |-> TRUE,
              m1 |-> SubSeq(string, 1, pre),
              m2 |-> SubSeq(string, pre + 1, run),
              m3 |-> SubSeq(rest, 1, gloss),
              m4 |-> SubSeq(rest, gloss + 2, Len(rest))]
        ELSE [matched |-> FALSE]

add_placename_reading(S, orthography, gloss, kind) ==
    [S EXCEPT !.kanji.placename_readings = Put(@, orthography, gloss)]

add_compound_reading(S, orthography, gloss) ==
    [S EXCEPT !.kanji.compound_readings = Put(@, orthography, gloss)]

\* 'for ort in orthographies: self.add_placename_reading(ort, gloss, suffix)'
RECURSIVE placename_loop(_, _, _, _, _)
placename_loop(S, orthographies, gloss, suffix, i) ==
    IF i > Len(orthographies) THEN S
    ELSE placename_loop(add_placename_reading(S, orthographies[i], gloss, suffix),
                        orthographies, gloss, suffix, i + 1)

\* 'for ort in orthographies: self.add_compound_reading(prefix + ort + suffix, ...)'
RECURSIVE compound_loop(_, _, _, _, _, _)
compound_loop(S, orthographies, prefix, gloss, suffix, i) ==
    IF i > Len(orthographies) THEN S
    ELSE compound_loop(add_compound_reading(S, prefix \o orthographies[i] \o suffix,
                                            prefix \o gloss \o suffix),
                       orthographies, prefix, gloss, suffix, i + 1)

\* 都道府県
ADMINISTRATIVE_UNITS == <<"TO", "DOU", "FU", "KEN">>

\* the test 'suffix and suffix in "都道府県"': Python's substring test
is_placename_suffix(suffix) == suffix # <<>> /\ occurs_in(suffix, ADMINISTRATIVE_UNITS)

\* the body of 'for part in parts' for one part
register_part(S, part) ==
    LET m == compound_match(part)
    IN  IF ~m.matched THEN Raise(S, "TypeError")
        ELSE LET orthographies == split(m.m2, "nakaguro")
             IN  IF is_placename_suffix(m.m4)
                 THEN placename_loop(S, orthographies, m.m3, m.m4, 1)
                 ELSE compound_loop(S, orthographies, m.m1, m.m3, m.m4, 1)

\* 'for part in parts: ...; return': the return statement is inside the loop
\* body, so the loop ends after its first round
parts_loop(S, parts) == register_part(S, parts[1])

\* the fixed lines
\* 多く文語の「亡き」で使う。
NOTE_NAKI ==
    <<"OOI", "ku", "BUN", "GO", "no", "lq", "NAKI", "ki", "rq", "de", "TSUKAU", "u", "maru">>
\* 「三位一体」，「従三位」は，「サン
NOTE_SANMI_1 ==
    <<"lq", "MITSU", "KURAI", "ICHI", "TAI", "rq", "fcomma", "lq", "JUU", "MITSU", "KURAI",
      "rq", "ha", "fcomma", "lq", "Ksa", "Kn">>
\* ミイッタイ」，「ジュサンミ」。
NOTE_SANMI_2 ==
    <<"Kmi", "Ki", "Kxtsu", "Kta", "Ki", "rq", "fcomma", "lq", "Kji", "Kxyu", "Ksa", "Kn",
      "Kmi", "rq", "maru">>
\* 「春雨」，「小雨」，「霧雨」などは，
NOTE_HARUSAME_1 ==
    <<"lq", "HARU", "AME", "rq", "fcomma", "lq", "KO", "AME", "rq", "fcomma", "lq", "KIRI",
      "AME", "rq", "na", "do", "ha", "fcomma">>
\* 「はるさめ」，「こさめ」，「きりさめ」。
NOTE_HARUSAME_2 ==
    <<"lq", "ha", "ru", "sa", "me", "rq", "fcomma", "lq", "ko", "sa", "me", "rq", "fcomma",
      "lq", "ki", "ri", "sa", "me", "rq", "maru">>
\* 「憂き」は，文語の連体形。
NOTE_UKI ==
    <<"lq", "UKI", "ki", "rq", "ha", "fcomma", "BUN", "GO", "no", "REN", "TAI", "KEI", "maru">>

\* e.literary = True for every example that contains the text
mark_literary(examples, text) ==
    [i \in DOMAIN examples |->
        IF occurs_in(text, examples[i].example)
        THEN [examples[i] EXCEPT !.literary = TRUE] ELSE examples[i]]

\* next(e for e in self.examples if text in e.example).literary = True
mark_first_literary(examples, text) ==
    LET i == CHOOSE i \in DOMAIN examples :
                 /\ occurs_in(text, examples[i].example)
                 /\ \A j \in 1..(i - 1) : ~occurs_in(text, examples[j].example)
    IN  [examples EXCEPT ![i].literary = TRUE]

\* the positions of 」 in a string that starts with 「
Closings(string) == {i \in DOMAIN string : i > 1 /\ string[i] = "rq"}

\* string, from position i on, is an optional x followed by rest... : helper for
\* the optional parts of the patterns
After(string, i) == SubSeq(string, i + 1, Len(string))
Optional(t, x) == {t} \cup (IF StartsWith(t, x) THEN {SubSeq(t, Len(x) + 1, Len(t))} ELSE {})

\* re.match('⇔ *(.+)', string) and its group 1
alternate_match(string) == Len(string) >= 2 /\ string[1] = "arrow"
alternate_match_1(string) ==
    LET rest   == Tail(string)
        spaces == RunLength(rest, {"sp"})
    IN  IF spaces = Len(rest) THEN <<"sp">> ELSE SubSeq(rest, spaces + 1, Len(rest))

\* re.match('(「.*」，?)+(など)?は，', string): '.*' may run over any 」，「, so one
\* round of the group is enough
opener_match(string) ==
    /\ string # <<>> /\ string[1] = "lq"
    /\ \E i \in Closings(string) :
         \E t \in Optional(After(string, i), <<"fcomma">>) :
           \E u \in Optional(t, <<"na", "do">>) : StartsWith(u, <<"ha", "fcomma">>)

\* re.match('(「(.*)」，?)+などと使う。$', string)
closer_match(string) ==
    /\ string # <<>> /\ string[1] = "lq"
    /\ \E i \in Closings(string) :
         \E t \in Optional(After(string, i), <<"fcomma">>) : t = PHRASE_TSUKAU

\* re.search('。$', string)
ends_sentence(string) == string # <<>> /\ string[Len(string)] = "maru"

\* re.match('(「[\p{Han}\p{Hiragana}\p{Katakana}]+」,?)+とも(書く)?。', string)
RECURSIVE also_written_match(_)
also_written_match(string) ==
    LET run  == RunLength(After(string, 1), Han \cup Hiragana \cup Katakana)
        rest == After(string, run + 2)
    IN  /\ string # <<>> /\ string[1] = "lq"
        /\ run >= 1
        /\ Len(string) >= run + 2
        /\ string[run + 2] = "rq"
        /\ \E t \in Optional(rest, <<"comma">>) :
             \/ also_written_match(t)
             \/ \E u \in Optional(After(t, 2), <<"KAKU", "ku">>) :
                  StartsWith(t, <<"to", "mo">>) /\ StartsWith(u, <<"maru">>)

\* re.match('「(\p{Han})」.*転用。', string)
diverted_match(string) ==
    /\ Len(string) >= 3
    /\ string[1] = "lq" /\ string[2] \in Han /\ string[3] = "rq"
    /\ occurs_in(<<"TEN", "MOCHI", "maru">>, After(string, 3))

\* re.match('「(.*)」.*の意。', string)
meaning_match(string) ==
    /\ string # <<>> /\ string[1] = "lq"
    /\ \E i \in Closings(string) : occurs_in(<<"no", "IMI", "maru">>, After(string, i))

\* re.search('」になる。$', string)
becomes_match(string) == EndsWith(string, <<"rq", "ni", "na", "ru", "maru">>)

set_notes(S, self, string) == [S EXCEPT !.heap[self].notes = string]

Last(S) == S.kanji.readings[Len(S.kanji.readings)]

\* the last statement of Reading.append_to_notes: no rule has matched
unknown_format_stored(S, self, string) == set_notes(S, self, string)

unknown_format(S, self, string) == RaiseWith(S, "RuntimeError", string)

\* the general rules of Reading.append_to_notes, from the ⇔ rule on
general_rules(S, self, string) ==
    IF alternate_match(string)
    THEN LET m1 == alternate_match_1(string)
             S1 == set_notes(S, self, string)
         IN  IF m1[1] \notin Han \cup Hiragana \cup {"fcomma"}
             THEN Raise(S1, "AssertionError")
             ELSE [S1 EXCEPT !.heap[self].alternate_orthographies = split(m1, "fcomma")]
    ELSE IF opener_match(string)
    THEN LET S1 == set_notes(S, self, string)
         IN  IF ~ends_sentence(string) THEN [S1 EXCEPT !.kanji.pending_note = TRUE] ELSE S1
    ELSE IF closer_match(string)
    THEN set_notes(S, self, string)
    ELSE IF S.kanji.pending_note = TRUE /\ ends_sentence(string)
    THEN LET n == Len(S.kanji.readings)
         IN  IF S.heap[self].notes # <<>>
             THEN [S EXCEPT !.heap[self].notes = @ \o string, !.kanji.pending_note = FALSE]
             ELSE IF n < 2
             THEN Raise(S, "IndexError")
             ELSE IF S.heap[S.kanji.readings[n - 1]].notes # <<>>
             THEN [S EXCEPT !.heap[S.kanji.readings[n - 1]].notes = @ \o string,
                            !.kanji.pending_note = FALSE]
             ELSE Raise(S, "ValueError")
    ELSE IF also_written_match(string)
    THEN set_notes(S, self, string)
    ELSE IF diverted_match(string)
    THEN set_notes(S, self, string)
    ELSE IF meaning_match(string)
    THEN set_notes(S, self, string)
    ELSE IF becomes_match(string)
    THEN set_notes(S, self, string)
    ELSE unknown_format(S, self, string)

\* Reading.append_to_notes
Reading_append_to_notes(S, self, string) ==
    IF S.exc # "none" THEN S
    ELSE IF string = NOTE_NAKI
    THEN LET S1 == add_examples(S, self, <<"NAKI", "ki">>)
         IN  IF S1.exc # "none" THEN S1
             ELSE [S1 EXCEPT !.heap[self].examples = mark_literary(@, <<"NAKI", "ki">>),
                             !.heap[self].notes = string]
    ELSE IF string = NOTE_SANMI_1
    THEN [S EXCEPT !.heap[self].notes = string, !.kanji.pending_note = TRUE]
    ELSE IF string = NOTE_SANMI_2
    THEN LET n  == Len(S.kanji.readings)
             S1 == [S EXCEPT !.heap[S.kanji.readings[n - 1]].notes = @ \o string,
                             !.kanji.pending_note = FALSE]
             \* ミ, the variation of イ; 三位一体，従三位
             S2 == add_reading(S1, <<"Kmi">>, None, None)
             S3 == [S2 EXCEPT !.heap[Last(S2)].variation_of = <<"Ki">>]
         IN  IF n < 2 THEN Raise(S, "IndexError")
             ELSE add_examples(S3, Last(S3),
                               <<"MITSU", "KURAI", "ICHI", "TAI", "fcomma", "JUU", "MITSU", "KURAI">>)
    ELSE IF string = NOTE_HARUSAME_1
    THEN [S EXCEPT !.heap[self].notes = string, !.kanji.pending_note = TRUE]
    ELSE IF string = NOTE_HARUSAME_2
    THEN LET S1 == [S EXCEPT !.heap[self].notes = @ \o string, !.kanji.pending_note = FALSE]
             \* さめ, the variation of あめ; 春雨，小雨，霧雨
             S2 == add_reading(S1, <<"sa", "me">>, None, None)
             S3 == [S2 EXCEPT !.heap[Last(S2)].variation_of = <<"a", "me">>]
         IN  add_examples(S3, Last(S3),
                          <<"HARU", "AME", "fcomma", "KO", "AME", "fcomma", "KIRI", "AME">>)
    ELSE IF string = NOTE_UKI
    THEN IF \A i \in DOMAIN S.heap[self].examples :
               ~occurs_in(<<"UKI", "ki">>, S.heap[self].examples[i].example)
         THEN Raise(S, "StopIteration")
         ELSE general_rules([S EXCEPT !.heap[self].examples = mark_first_literary(@, <<"UKI", "ki">>)],
                            self, string)
    ELSE general_rules(S, self, string)

\* Kanji.append_to_notes, were the appendix reference always to start the notes afresh
Kanji_append_to_notes_replacing(S, line) ==
    LET string == strip(line)
    IN  IF S.exc # "none" THEN S
        ELSE IF accepted_variant_match(string)
        THEN [S EXCEPT !.kanji.notes = string, !.kanji.pending_note = TRUE]
        ELSE IF appendix_match(string)
        THEN LET m1 == appendix_match_1(string)
             IN  [S EXCEPT !.kanji.notes = m1, !.kanji.joyo_documentation = m1]
        ELSE IF string # <<>> /\ compound_match(string).matched
        THEN parts_loop([S EXCEPT !.kanji.notes = string], split(string, "fcomma"))
        ELSE IF S.kanji.readings = <<>> THEN Raise(S, "IndexError")
        ELSE Reading_append_to_notes(S, Last(S), string)

\* Kanji.append_to_notes
Kanji_append_to_notes(S, line) ==
    LET string == strip(line)
    IN  IF S.exc # "none" THEN S
        ELSE IF accepted_variant_match(string)
        THEN [S EXCEPT !.kanji.notes = string, !.kanji.pending_note = TRUE]
        ELSE IF appendix_match(string)
        THEN LET m1 == appendix_match_1(string)
                 S1 == IF S.kanji.pending_note
                       THEN [S EXCEPT !.kanji.notes = @ \o m1, !.kanji.pending_note = FALSE]
                       ELSE [S EXCEPT !.kanji.notes = m1]
             IN  [S1 EXCEPT !.kanji.joyo_documentation = m1]
        ELSE IF string # <<>> /\ compound_match(string).matched
        THEN parts_loop([S EXCEPT !.kanji.notes = string], split(string, "fcomma"))
        ELSE IF S.kanji.readings = <<>> THEN Raise(S, "IndexError")
        ELSE Reading_append_to_notes(S, Last(S), string)

----------------------------------------------------------------------------
(* Specification of the pure functions: the inputs are drawn at the start, *)
(* one action applies the classifier and one the delimiter.                *)

RECURSIVE StringsUpTo(_, _)
StringsUpTo(alphabet, n) ==
    IF n = 0 THEN {<<>>}
    ELSE LET shorter == StringsUpTo(alphabet, n - 1)
         IN  shorter \cup {Append(s, c) : s \in shorter, c \in alphabet}

\* 干 昼
OkuriganaKanji == {<<"HOSU">>, <<"HIRU">>}
OkuriganaKana == {"ru", "ri", "yo"}
\* kana readings, and the same readings with the last kana already delimited
OkuriganaReadings ==
    LET kana == StringsUpTo(OkuriganaKana, MaxReadingLen) \ {<<>>}
    IN  kana \cup {SubSeq(r, 1, Len(r) - 1) \o <<".", r[Len(r)]>> : r \in kana}
\* the examples are long enough to hold a kanji before the kanji and the whole reading
OkuriganaExamples ==
    StringsUpTo(OkuriganaKana \cup {"HOSU", "HIRU"}, MaxReadingLen + 1) \ {<<>>}

NoCall == [op |-> "none", self |-> 0, arg |-> <<>>, exc |-> "none", msg |-> <<>>]

\* 恐
TheKanji == <<"OSORE">>

NoFn ==
    [kanji |-> TheKanji, reading |-> <<>>, example |-> <<>>, op |-> "none",
     ichidan |-> FALSE, result |-> <<>>]

InitOkurigana ==
    /\ kanji = Kanji(TheKanji)
    /\ heap = <<>>
    /\ call = NoCall
    /\ before = [kanji |-> Kanji(TheKanji), heap |-> <<>>]
    /\ ncalls = 0
    /\ fn \in [kanji : OkuriganaKanji, reading : OkuriganaReadings,
               example : OkuriganaExamples, op : {"input"},
               ichidan : {FALSE}, result : {<<>>}]

Classify ==
    /\ fn.op = "input"
    /\ fn' = [fn EXCEPT !.op = "is_ichidan_verb",
                        !.ichidan = is_ichidan_verb(fn.kanji, fn.reading)]
    /\ UNCHANGED <<kanji, heap, call, before, ncalls>>

Delimit ==
    /\ fn.op = "input"
    /\ fn' = [fn EXCEPT !.op = "delimit_okurigana",
                        !.result = delimit_okurigana(fn.kanji, fn.reading, fn.example)]
    /\ UNCHANGED <<kanji, heap, call, before, ncalls>>

NextOkurigana == Classify \/ Delimit

SpecOkurigana == InitOkurigana /\ [][NextOkurigana]_vars

----------------------------------------------------------------------------
(* Specification of the entities: a Kanji is constructed, and the table    *)
(* feeder calls add_reading, add_examples and append_to_notes on it and on *)
(* its readings.                                                           *)

\* おそれる, サン, and an indented (uncommon) おそ
ReadingArgs ==
    {<<"o", "so", "re", "ru">>, <<"Ksa", "Kn">>, <<"wsp", "o", "so">>}

ExampleArgs ==
    {<<"OSORE", "re", "ru">>,                                 \* 恐れる
     <<"OSORE", "ru">>,                                       \* 恐る
     <<"OSORE", "ru", "fcomma", "OSORE", "ri">>,              \* 恐る，恐り
     <<"OSORE", "ra", "ku">>,                                 \* 恐らく
     <<"OSORE">>,                                             \* 恐
     <<"OSORE", "lp", "o", "xtsu", "so", "rp">>,              \* 恐（おっそ）
     <<"OSORE", "lp", "o", "rp", "lp", "so", "rp">>,          \* 恐（お）（そ）
     <<"lq", "OSORE", "re", "rq", "na", "do", "to", "TSUKAU", "u", "maru">>,  \* 「恐れ」などと使う。
     <<"OSORE", "re", "lt", "FUKU", "rt">>,                   \* 恐れ〔副〕
     <<"OSORE", "re", "ru", "fcomma", "OSORE", "ru", "fcomma",
       "OSORE", "ru", "lp", "o", "rp", "lt", "FUKU", "rt">>}  \* 恐れる，恐る，恐る（お）〔副〕

NoteArgs ==
    {<<"lb", "OSORE", "rb", "eq", "KYO", "YOU", "JI", "TAI", "fcomma">>,   \* ［恐］＝許容字体，
     <<"star", "lb", "lp", "TSUKU", "rp", "ICHI", "SAN", "SHOU", "rb">>,   \* ＊［（付）一参照］
     <<"OSORE", "lp", "o", "so", "rp", "KEN">>,                            \* 恐（おそ）県
     <<"OSORE", "lp", "o", "so", "rp", "FU", "KEN">>,                      \* 恐（おそ）府県
     <<"o", "OSORE", "nakaguro", "HAJI", "lp", "o", "so", "rp", "re">>,    \* お恐・恥（おそ）れ
     <<"OSORE", "lp", "o", "so", "rp", "KEN", "fcomma",
       "HAJI", "lp", "ha", "ji", "rp", "KEN">>,                            \* 恐（おそ）県，恥（はじ）県
     <<"arrow", "sp", "HAJI">>,                                            \* ⇔ 恥
     <<"lq", "OSORE", "rq", "ha", "fcomma">>,                              \* 「恐」は，
     <<"lq", "OSORE", "rq", "ha", "fcomma", "o", "so", "maru">>,           \* 「恐」は，おそ。
     <<"lq", "OSORE", "rq", "na", "do", "to", "TSUKAU", "u", "maru">>,     \* 「恐」などと使う。
     <<"lq", "OSORE", "rq", "to", "mo", "KAKU", "ku", "maru">>,            \* 「恐」とも書く。
     <<"o", "so", "maru">>,                                                \* おそ。
     <<"o", "so">>}                                                        \* おそ

Start == [kanji |-> kanji, heap |-> heap, exc |-> "none", msg |-> <<>>]

Return(op, self, arg, S) ==
    /\ ncalls < MaxCalls
    /\ kanji' = S.kanji
    /\ heap' = S.heap
    /\ call' = [op |-> op, self |-> self, arg |-> arg, exc |-> S.exc, msg |-> S.msg]
    /\ before' = [kanji |-> kanji, heap |-> heap]
    /\ ncalls' = ncalls + 1
    /\ UNCHANGED fn

Init ==
    /\ kanji = Kanji(TheKanji)
    /\ heap = <<>>
    /\ call = NoCall
    /\ before = [kanji |-> Kanji(TheKanji), heap |-> <<>>]
    /\ ncalls = 0
    /\ fn = NoFn

KanjiAddReading ==
    \E reading \in ReadingArgs :
        Return("Kanji.add_reading", 0, reading, add_reading(Start, reading, None, None))

KanjiAddExamples ==
    \E examples \in ExampleArgs :
        Return("Kanji.add_examples", 0, examples, Kanji_add_examples(Start, examples))

ReadingAddExamples ==
    \E self \in DOMAIN heap, examples \in ExampleArgs :
        Return("Reading.add_examples", self, examples, add_examples(Start, self, examples))

KanjiAppendToNotes ==
    \E string \in NoteArgs :
        Return("Kanji.append_to_notes", 0, string, Kanji_append_to_notes(Start, string))

ReadingAppendToNotes ==
    \E self \in DOMAIN heap, string \in NoteArgs :
        Return("Reading.append_to_notes", self, string,
               Reading_append_to_notes(Start, self, string))

Next ==
    \/ KanjiAddReading
    \/ KanjiAddExamples
    \/ ReadingAddExamples
    \/ KanjiAppendToNotes
    \/ ReadingAppendToNotes

Spec == Init /\ [][Next]_vars

----------------------------------------------------------------------------
(* Properties of the pure functions (SpecOkurigana) *)

IsKana(s) == \A i \in DOMAIN s : s[i] \in Hiragana \cup Katakana

ReplaceLast(s, c) == SubSeq(s, 1, Len(s) - 1) \o <<c>>

\* the probes of a suffix, as plain strings
Probes(k, reading, suffix) ==
    LET whole   == k \o suffix
        dropped == SubSeq(whole, 1, Len(whole) - 1)
        direct  == {whole} \cup (IF is_ichidan_verb(k, reading) THEN {dropped} ELSE {})
    IN  direct \cup
        UNION {{ReplaceLast(p, c) : c \in GODAN_INFLECTION[p[Len(p)]]} :
                   p \in {q \in direct : q[Len(q)] \in DOMAIN GODAN_INFLECTION}}

\* the lengths of the suffixes of the reading that have a probe occurring in the example
MatchingSuffixLengths(k, reading, example) ==
    {n \in 1..Len(reading) :
        \E p \in Probes(k, reading, SubSeq(reading, Len(reading) - n + 1, Len(reading))) :
            occurs_in(p, example)}

Longest(S) == CHOOSE n \in S : \A m \in S : m <= n

SplitAt(reading, n) ==
    SubSeq(reading, 1, Len(reading) - n) \o <<".">> \o
    SubSeq(reading, Len(reading) - n + 1, Len(reading))

\* C8: for example != kanji the result is prefix + '.' + suffix for the LONGEST
\* suffix of the canonical (kana) reading that has a probe occurring in the
\* example; ('頼','たよる','頼り') -> 'たよ.る', ('初','そめる','出初め式') ->
\* 'そ.める', ('静','しずか','静かだ') -> 'しず.か'.
LongestSuffixFirst ==
    /\ (fn.op = "delimit_okurigana" /\ fn.example # fn.kanji /\ IsKana(fn.reading))
        => LET hits == MatchingSuffixLengths(fn.kanji, fn.reading, fn.example)
           IN  hits # {} => fn.result = SplitAt(fn.reading, Longest(hits))
    /\ delimit_okurigana(<<"TANOMU">>, <<"ta", "yo", "ru">>, <<"TANOMU", "ri">>)
           = <<"ta", "yo", ".", "ru">>
    /\ delimit_okurigana(<<"HATSU">>, <<"so", "me", "ru">>,
                         <<"DERU", "HATSU", "me", "SHIKI">>)
           = <<"so", ".", "me", "ru">>
    /\ delimit_okurigana(<<"SHIZU">>, <<"shi", "zu", "ka">>, <<"SHIZU", "ka", "da">>)
           = <<"shi", "zu", ".", "ka">>

\* a split was made although a shorter suffix matched as well
WitnessLongestSuffixFirst ==
    /\ fn.op = "delimit_okurigana"
    /\ fn.example # fn.kanji
    /\ IsKana(fn.reading)
    /\ Cardinality(MatchingSuffixLengths(fn.kanji, fn.reading, fn.example)) >= 2
    /\ fn.result = SplitAt(fn.reading, Len(fn.reading))
    /\ fn.result # SplitAt(fn.reading, 1)

\* C9: delimit_okurigana(kanji, r, kanji) = r for every r, dotted or not; for
\* example != kanji the result is the (kana) reading unchanged when no probe of
\* any suffix occurs in the example; the result and the reading agree once '.'
\* is removed.
NoSplitCases ==
    fn.op = "delimit_okurigana" =>
        /\ fn.example = fn.kanji => fn.result = fn.reading
        /\ (/\ fn.example # fn.kanji
            /\ IsKana(fn.reading)
            /\ MatchingSuffixLengths(fn.kanji, fn.reading, fn.example) = {})
                => fn.result = fn.reading
        /\ Remove(fn.result, ".") = Remove(fn.reading, ".")

\* the bare kanji as the example of an ichidan-shaped reading: no split
WitnessNoSplitCases ==
    /\ fn.op = "delimit_okurigana"
    /\ fn.kanji = <<"HOSU">>
    /\ fn.example = fn.kanji
    /\ fn.reading = <<"ri", "ru">>
    /\ fn.result = <<"ri", "ru">>

\* C10: is_ichidan_verb is False for the kanji 昼 and 汁, and otherwise True
\* exactly when the reading ends in an ICHIDAN_BASE_ENDING kana followed by る.
IchidanShape ==
    /\ fn.op = "is_ichidan_verb" =>
        /\ fn.ichidan \in BOOLEAN
        /\ fn.kanji \in {<<"HIRU">>, <<"SHIRU">>} => fn.ichidan = FALSE
        /\ fn.kanji \notin {<<"HIRU">>, <<"SHIRU">>} =>
              (fn.ichidan <=>
                  \E b \in ICHIDAN_BASE_ENDING :
                      /\ Len(fn.reading) >= 2
                      /\ SubSeq(fn.reading, Len(fn.reading) - 1, Len(fn.reading)) = <<b, "ru">>)
        /\ Len(fn.reading) = 1 => fn.ichidan = FALSE
        /\ fn.reading[Len(fn.reading)] # "ru" => fn.ichidan = FALSE
    /\ is_ichidan_verb(<<"TABE">>, <<"ta", "be", "ru">>) = TRUE
    /\ is_ichidan_verb(<<"HOSU">>, <<"hi", "ru">>) = TRUE
    /\ is_ichidan_verb(<<"NOMU">>, <<"no", "mu">>) = FALSE
    /\ is_ichidan_verb(<<"HIRU">>, <<"hi", "ru">>) = FALSE

\* the exception list overrides the shape of the reading
WitnessIchidanShape ==
    /\ fn.op = "is_ichidan_verb"
    /\ fn.kanji = <<"HIRU">>
    /\ fn.reading = <<"ri", "ru">>
    /\ fn.ichidan = FALSE

----------------------------------------------------------------------------
(* Properties of the entities (Spec) *)

AddExamplesOps == {"Kanji.add_examples", "Reading.add_examples"}
AppendToNotesOps == {"Kanji.append_to_notes", "Reading.append_to_notes"}

LastOf(k) == k.readings[Len(k.readings)]

\* the reading a call was made on
Target == IF call.self = 0 THEN LastOf(before.kanji) ELSE call.self

\* the last call was add_examples on the reading that was the last of its kanji,
\* and it returned
AddedToLast ==
    /\ call.op \in AddExamplesOps
    /\ call.exc = "none"
    /\ before.kanji.readings # <<>>
    /\ Target = LastOf(before.kanji)

\* the readings created by the last call
Created == DOMAIN heap \ DOMAIN before.heap

ExampleTexts(r) == {r.examples[i].example : i \in DOMAIN r.examples}

\* the split computed for an example of reading r
ComputedSplit(r, example) == delimit_okurigana(kanji.kanji, Remove(r.reading, "."), example)

\* C1: for a Kun reading that is the last of its kanji and has a recorded dotted
\* split, after add_examples returns the reading keeps only examples whose
\* computed split is absent or equal to the recorded one, and every example it
\* lost is the example of a newly created reading of the kanji.
ConflictingExamplesAreDetached ==
    (/\ AddedToLast
     /\ before.heap[Target].kind = <<"Kun">>
     /\ "." \in Range(before.heap[Target].reading))
    => /\ \A x \in ExampleTexts(heap[Target]) :
            \/ "." \notin Range(ComputedSplit(before.heap[Target], x))
            \/ ComputedSplit(before.heap[Target], x) = before.heap[Target].reading
       /\ \A x \in ExampleTexts(before.heap[Target]) \ ExampleTexts(heap[Target]) :
            \E id \in Created : x \in ExampleTexts(heap[id])

\* the entries of an examples string, as add_examples splits it
Entries(examples_str) == SelectSeq(split(examples_str, "fcomma"), NonEmpty)

InsertBefore(order, id, new) ==
    LET i == CHOOSE i \in DOMAIN order : order[i] = id
    IN  SubSeq(order, 1, i - 1) \o <<new>> \o SubSeq(order, i, Len(order))

\* C4: one entry 'text（gloss）' added to a reading R that is the last of its
\* kanji (and has no examples yet) creates exactly one Reading: its kana is the
\* gloss cut after the first っ, its variation_of is R's reading, its only
\* example is the text, it sits immediately before R, and R gets no example.
GlossIsPromotedOnce ==
    (/\ AddedToLast
     /\ Len(Entries(call.arg)) = 1
     /\ "lq" \notin Range(call.arg)
     /\ gloss_match(Entries(call.arg)[1])
     /\ before.heap[Target].examples = <<>>)
    => LET entry == Entries(call.arg)[1]
           gloss == gloss_match_2(entry)
       IN  /\ Cardinality(Created) = 1
           /\ \A id \in Created :
                /\ Remove(heap[id].reading, ".") =
                     (IF "xtsu" \in Range(gloss) THEN cut_after_small_tsu(gloss) ELSE gloss)
                /\ heap[id].variation_of = before.heap[Target].reading
                /\ ExampleTexts(heap[id]) = {gloss_match_1(entry)}
                /\ Len(heap[id].examples) = 1
                /\ kanji.readings = InsertBefore(before.kanji.readings, Target, id)
           /\ heap[Target].examples = <<>>

\* C5: a reading that is the last of its kanji when add_examples is called on it
\* is still the last when the call returns, whatever readings the call created.
ActiveReadingStaysLast ==
    AddedToLast => LastOf(kanji) = Target

\* the segments of a kanji-scoped compound line
Segments(string) == split(strip(string), "fcomma")

\* the last call was Kanji.append_to_notes, it took the compound rule
CompoundLine ==
    /\ call.op = "Kanji.append_to_notes"
    /\ call.exc = "none"
    /\ ~accepted_variant_match(strip(call.arg))
    /\ ~appendix_match(strip(call.arg))
    /\ \A i \in DOMAIN Segments(call.arg) : compound_match(Segments(call.arg)[i]).matched

Orthographies(m) == Range(split(m.m2, "nakaguro"))

\* C2: every segment of a compound line is registered: each orthography of each
\* segment is a key of placename_readings or of compound_readings.
EverySegmentIsRegistered ==
    CompoundLine =>
        \A i \in DOMAIN Segments(call.arg) :
            LET m == compound_match(Segments(call.arg)[i])
            IN  \A ort \in Orthographies(m) :
                    \/ ort \in DOMAIN kanji.placename_readings
                    \/ m.m1 \o ort \o m.m4 \in DOMAIN kanji.compound_readings

\* C3: a segment whose suffix is exactly one of 都 道 府 県 goes to
\* placename_readings and leaves compound_readings alone; a segment with any
\* other suffix goes to compound_readings and leaves placename_readings alone.
\* (Stated for one-segment lines.)
PlacenameOrCompound ==
    (CompoundLine /\ Len(Segments(call.arg)) = 1) =>
        LET m == compound_match(Segments(call.arg)[1])
        IN  IF m.m4 \in {<<"TO">>, <<"DOU">>, <<"FU">>, <<"KEN">>}
            THEN /\ \A ort \in Orthographies(m) :
                        /\ ort \in DOMAIN kanji.placename_readings
                        /\ kanji.placename_readings[ort] = m.m3
                 /\ kanji.compound_readings = before.kanji.compound_readings
            ELSE /\ \A ort \in Orthographies(m) :
                        /\ m.m1 \o ort \o m.m4 \in DOMAIN kanji.compound_readings
                        /\ kanji.compound_readings[m.m1 \o ort \o m.m4] = m.m1 \o m.m3 \o m.m4
                 /\ kanji.placename_readings = before.kanji.placename_readings

\* the last call reached Reading.append_to_notes, directly or from
\* Kanji.append_to_notes, with this line
ReachedReadingNotes ==
    /\ call.op \in AppendToNotesOps
    /\ before.kanji.readings # <<>>
    /\ call.op = "Kanji.append_to_notes" =>
          LET string == strip(call.arg)
          IN  /\ ~accepted_variant_match(string)
              /\ ~appendix_match(string)
              /\ ~(string # <<>> /\ compound_match(string).matched)
NoteLine == IF call.op = "Kanji.append_to_notes" THEN strip(call.arg) ELSE call.arg

FixedLines ==
    {NOTE_NAKI, NOTE_SANMI_1, NOTE_SANMI_2, NOTE_HARUSAME_1, NOTE_HARUSAME_2, NOTE_UKI}

\* none of the rules before the continuation rule takes the line
NoEarlierRule(string) ==
    /\ string \notin FixedLines
    /\ ~alternate_match(string)
    /\ ~opener_match(string)
    /\ ~closer_match(string)

\* none of the rules after the continuation rule takes the line
NoLaterRule(string) ==
    /\ ~also_written_match(string)
    /\ ~diverted_match(string)
    /\ ~meaning_match(string)
    /\ ~becomes_match(string)

\* C6: a pending note is closed by a line ending in 。: the line goes to the
\* current reading's notes if they are non-empty, else to the second-to-last
\* reading's notes if they are non-empty, and pending_note becomes false; if
\* neither has a note - also when the kanji has one reading only - the call
\* fails with ValueError and nothing is stored.
ContinuationClosesOrFails ==
    (/\ ReachedReadingNotes
     /\ before.kanji.pending_note
     /\ ends_sentence(NoteLine)
     /\ NoEarlierRule(NoteLine))
    => LET n    == Len(before.kanji.readings)
           prev == before.kanji.readings[n - 1]
       IN  IF before.heap[Target].notes # <<>>
           THEN /\ call.exc = "none"
                /\ heap[Target].notes = before.heap[Target].notes \o NoteLine
                /\ kanji.pending_note = FALSE
           ELSE IF n >= 2 /\ before.heap[prev].notes # <<>>
           THEN /\ call.exc = "none"
                /\ heap[prev].notes = before.heap[prev].notes \o NoteLine
                /\ kanji.pending_note = FALSE
           ELSE /\ call.exc = "ValueError"
                /\ kanji = before.kanji
                /\ heap = before.heap

\* C7: a line that no rule of the note grammar takes makes the call fail with
\* RuntimeError, the message holds the line, and the kanji and its readings are
\* as they were before the call.
UnrecognizedNoteIsRejected ==
    (/\ ReachedReadingNotes
     /\ NoEarlierRule(NoteLine)
     /\ ~(before.kanji.pending_note /\ ends_sentence(NoteLine))
     /\ NoLaterRule(NoteLine))
    => /\ call.exc = "RuntimeError"
       /\ call.msg = NoteLine
       /\ kanji = before.kanji
       /\ heap = before.heap

\* an unknown line arrives while a note is pending
WitnessUnrecognizedNoteIsRejected ==
    /\ ReachedReadingNotes
    /\ before.kanji.pending_note
    /\ call.exc = "RuntimeError"
    /\ call.msg = NoteLine
    /\ call.msg # <<>>

----------------------------------------------------------------------------
(* Properties of whole call sequences (Spec): every state is compared with *)
(* the state before the last call, so each property covers every call of   *)
(* every sequence.                                                         *)

\* the number of examples with a given text in a list of examples
Count(examples, text) ==
    Cardinality({i \in DOMAIN examples : examples[i].example = text})

\* the number of examples over the first n readings of a kanji
RECURSIVE ExamplesOfFirst(_, _, _)
ExamplesOfFirst(k, h, n) ==
    IF n = 0 THEN 0
    ELSE Len(h[k.readings[n]].examples) + ExamplesOfFirst(k, h, n - 1)

TotalExamples(k, h) == ExamplesOfFirst(k, h, Len(k.readings))

\* an example with this text has left the reading during the last call
Left(r, text) == Count(heap[r].examples, text) < Count(before.heap[r].examples, text)

\* C11: no call removes a Reading from kanji.readings (its length never
\* decreases and it is not empty once a reading was added); when an example
\* leaves a reading, its text is attached to a reading created by the same
\* call; the number of examples over all readings never decreases.
NothingIsDeleted ==
    /\ Len(kanji.readings) >= Len(before.kanji.readings)
    /\ Range(before.kanji.readings) \subseteq Range(kanji.readings)
    /\ before.kanji.readings # <<>> => kanji.readings # <<>>
    /\ \A r \in DOMAIN before.heap : \A text \in ExampleTexts(before.heap[r]) :
           Left(r, text) => \E n \in Created : Count(heap[n].examples, text) > 0
    /\ TotalExamples(kanji, heap) >= TotalExamples(before.kanji, before.heap)

\* the number of delimiters in a reading
Dots(s) == Cardinality({i \in DOMAIN s : s[i] = "."})

\* C12: every reading (all are created from kana without '.') holds at most
\* one '.'; over any call the reading without its '.' stays the same kana, a
\* reading that was dotted before the call is the same after it, and the
\* reading of a reading that is not Kun does not change at all.
SingleDelimiter ==
    \A r \in DOMAIN heap :
        /\ Dots(heap[r].reading) <= 1
        /\ r \in DOMAIN before.heap =>
              /\ Remove(heap[r].reading, ".") = Remove(before.heap[r].reading, ".")
              /\ "." \in Range(before.heap[r].reading)
                    => heap[r].reading = before.heap[r].reading
              /\ heap[r].kind # <<"Kun">> => heap[r].reading = before.heap[r].reading

\* add_examples on a dotted reading met an example with another split: the
\* example went to a new reading and the recorded split stayed
WitnessSingleDelimiter ==
    /\ AddedToLast
    /\ "." \in Range(before.heap[Target].reading)
    /\ \E n \in Created :
          /\ "." \in Range(heap[n].reading)
          /\ heap[n].reading # heap[Target].reading
          /\ Remove(heap[n].reading, ".") = Remove(heap[Target].reading, ".")
    /\ heap[Target].reading = before.heap[Target].reading

\* the line is the first half of a note of two lines: an accepted-variant
\* line (kanji-scoped), or an opener that does not end in 。
Unfinished(line) ==
    \/ call.op = "Kanji.append_to_notes" /\ accepted_variant_match(line)
    \/ opener_match(line) /\ ~ends_sentence(line)

\* C13: after every append_to_notes call that returns, pending_note is true
\* exactly when the line just stored is an unfinished first half; a complete
\* or terminal note leaves pending_note false, also when it was true before
\* the call; the other calls leave pending_note as it was.
PendingNoteTracksOpenNote ==
    /\ (call.op \in AppendToNotesOps /\ call.exc = "none")
          => (kanji.pending_note <=> Unfinished(NoteLine))
    /\ call.op \notin AppendToNotesOps
          => kanji.pending_note = before.kanji.pending_note

\* the last call was Kanji.append_to_notes with a line ＊［（付）…参照］
AppendixLine ==
    /\ call.op = "Kanji.append_to_notes"
    /\ Len(NoteLine) >= 8
    /\ SubSeq(NoteLine, 1, 5) = <<"star", "lb", "lp", "TSUKU", "rp">>
    /\ SubSeq(NoteLine, Len(NoteLine) - 2, Len(NoteLine)) = <<"SAN", "SHOU", "rb">>

\* the reference, from （付） to the character before 参照］
Captured == SubSeq(NoteLine, 3, Len(NoteLine) - 3)

\* C14: a line ＊［（付）…参照］ given to Kanji.append_to_notes is accepted; with
\* pending_note true the notes become the previous notes followed by the
\* reference, otherwise the reference alone; pending_note is false afterwards,
\* joyo_documentation is the reference, and the readings and both
\* dictionaries are as before.  The accepted-variant line is stored as given
\* and sets pending_note.
AppendixReferenceIsKanjiScoped ==
    /\ AppendixLine =>
          /\ call.exc = "none"
          /\ kanji.notes = IF before.kanji.pending_note
                           THEN before.kanji.notes \o Captured ELSE Captured
          /\ kanji.pending_note = FALSE
          /\ kanji.joyo_documentation = Captured
          /\ heap = before.heap
          /\ kanji.readings = before.kanji.readings
          /\ kanji.placename_readings = before.kanji.placename_readings
          /\ kanji.compound_readings = before.kanji.compound_readings
    /\ (call.op = "Kanji.append_to_notes" /\ accepted_variant_match(NoteLine)) =>
          /\ call.exc = "none"
          /\ kanji.notes = NoteLine
          /\ kanji.pending_note = TRUE

\* the reference arrived right after an accepted-variant line
WitnessAppendixReferenceIsKanjiScoped ==
    /\ AppendixLine
    /\ before.kanji.pending_note
    /\ accepted_variant_match(before.kanji.notes)
    /\ kanji.notes = before.kanji.notes \o Captured
    /\ kanji.joyo_documentation = Captured

====
